---------------------------- MODULE Spec2Model ----------------------------
(***************************************************************************)
(* Model of src/Linear.py: a Streamlit script that loads the gold price    *)
(* history, converts it to IDR per gram, fits an ordinary-least-squares    *)
(* trend, extrapolates it and prints a summary.  Streamlit executes the    *)
(* script top to bottom on every widget interaction; the two functions     *)
(* decorated with st.cache_data keep their cache across runs.              *)
(*                                                                         *)
(* Floating point numbers are modelled as exact rationals n/d extended     *)
(* with the IEEE special values the script can produce: numpy's float64    *)
(* division by zero does not raise, it yields inf or nan.  Rounding and    *)
(* the sign of zero are not modelled.                                      *)
(***************************************************************************)
EXTENDS Integers, Sequences, FiniteSets

\* --------------------------------------------------------------- bounds
\* Dates offered by the price provider are StartDay + 0..MaxDay.
MaxDay == 2
\* Prices offered by the provider are 0..MaxPrice multiples of 31.1035 USD.
MaxPrice == 2
\* Exchange rates the rate API may answer are 1..MaxRate.
MaxRate == 2
\* The slider is moved among PredMin..PredMin+PredSpan-1 and its default.
PredSpan == 1
\* Network fetches of the rate that are followed between two Refreshes.
MaxFetches == 2
\* Candidate lines of the brute-force comparison differ from the fitted
\* line by -Grid..Grid halves in slope and in intercept.
Grid == 1

\* ------------------------------------------------------ program constants
PredMin == 7
PredDefault == 30
KursMin == 10000
KursDefault == 16000

\* ------------------------------------------------------------ float64
Abs(i) == IF i < 0 THEN -i ELSE i

Sgn(i) == IF i > 0 THEN 1 ELSE IF i < 0 THEN -1 ELSE 0

RECURSIVE GCD(_, _)
GCD(a, b) == IF b = 0 THEN a ELSE GCD(b, a % b)

\* n/d in lowest terms with d > 0; d = 0 is nan (n = 0), +inf (1), -inf (-1).
Norm(n, d) ==
  IF d = 0 THEN [n |-> Sgn(n), d |-> 0]
  ELSE LET g == GCD(Abs(n), Abs(d))
       IN  [n |-> (Sgn(d) * n) \div g, d |-> Abs(d) \div g]

F(i) == [n |-> i, d |-> 1]

NaN == [n |-> 0, d |-> 0]

IsNaN(a) == a.d = 0 /\ a.n = 0

IsFinite(a) == a.d > 0

FNeg(a) == [n |-> -a.n, d |-> a.d]

FAdd(a, b) ==
  IF IsNaN(a) \/ IsNaN(b) THEN NaN
  ELSE IF a.d = 0 /\ b.d = 0 THEN (IF a.n = b.n THEN a ELSE NaN)
  ELSE IF a.d = 0 THEN a
  ELSE IF b.d = 0 THEN b
  ELSE LET g == GCD(a.d, b.d)
           l == (a.d \div g) * b.d
       IN  Norm(a.n * (l \div a.d) + b.n * (l \div b.d), l)

FSub(a, b) == FAdd(a, FNeg(b))

FMul(a, b) ==
  IF a.d = 0 \/ b.d = 0 THEN Norm(Sgn(a.n) * Sgn(b.n), 0)
  ELSE LET g1 == GCD(Abs(a.n), b.d)
           g2 == GCD(Abs(b.n), a.d)
       IN  Norm((a.n \div g1) * (b.n \div g2), (a.d \div g2) * (b.d \div g1))

\* x / 0 is +-inf, 0 / 0 is nan, x / inf is 0: no exception is raised.
FDiv(a, b) == FMul(a, Norm(b.d, b.n))

FGt(a, b) == FSub(a, b).n > 0

RECURSIVE FSum(_)
FSum(s) == IF s = <<>> THEN F(0) ELSE FAdd(s[1], FSum(Tail(s)))

FMean(s) == FDiv(FSum(s), F(Len(s)))

Last(s) == s[Len(s)]

\* ------------------------------------------------------------ pipeline
\* 31.1035 grams per troy ounce.
OzGram == [n |-> 62207, d |-> 2000]

NAIK == "Tren Naik"

TURUN == "Tren Turun / Stabil"

API == "API (Real-time)"

MANUAL == "Manual"

\* A variable the run has not assigned yet.
Unset == [n |-> 0, d |-> -1]

\* get_kurs_api has no cached value.
NoRate == Unset

RECURSIVE SeqMin(_)
SeqMin(s) ==
  IF Len(s) = 1 THEN s[1]
  ELSE LET m == SeqMin(Tail(s)) IN IF s[1] < m THEN s[1] ELSE m

Column(d, c) == [i \in 1..Len(d) |-> d[i][c]]

\* df.dropna(): rows whose Close is missing are dropped, order kept.
DropNa(raw) == SelectSeq(raw, LAMBDA r : ~IsNaN(r.price_usd))

\* Convert in the wrong direction: dividing by the rate.
ConvertDividingByRate(price, rate, divisor) == FDiv(FDiv(price, rate), divisor)

\* df['price_usd'] * kurs_idr / 31.1035, with the divisor as a parameter.
Convert(price, rate, divisor) == FDiv(FMul(price, rate), divisor)

PriceIdr(price, rate) == Convert(price, rate, OzGram)

\* TimeIndex anchored at the latest date.
TimeIndexFromLatest(ds) == [i \in 1..Len(ds) |-> ds[i] - Last(ds)]

\* (df['ds'] - df['ds'].min()).dt.days
TimeIndex(ds) == [i \in 1..Len(ds) |-> ds[i] - SeqMin(ds)]

Floats(s) == [i \in 1..Len(s) |-> F(s[i])]

\* Beta1 with the denominator taken about 0 instead of about the mean.
Beta1Uncentered(xs, ys) ==
  LET x_mean == FMean(Floats(xs))
      y_mean == FMean(ys)
      dx == [i \in 1..Len(xs) |-> FSub(F(xs[i]), x_mean)]
      dy == [i \in 1..Len(ys) |-> FSub(ys[i], y_mean)]
  IN  FDiv(FSum([i \in 1..Len(xs) |-> FMul(dx[i], dy[i])]),
           FSum([i \in 1..Len(xs) |-> FMul(F(xs[i]), F(xs[i]))]))

Beta1(xs, ys) ==
  LET x_mean == FMean(Floats(xs))
      y_mean == FMean(ys)
      dx == [i \in 1..Len(xs) |-> FSub(F(xs[i]), x_mean)]
      dy == [i \in 1..Len(ys) |-> FSub(ys[i], y_mean)]
  IN  FDiv(FSum([i \in 1..Len(xs) |-> FMul(dx[i], dy[i])]),
           FSum([i \in 1..Len(xs) |-> FMul(dx[i], dx[i])]))

Beta0(xs, ys, b1) == FSub(FMean(ys), FMul(b1, FMean(Floats(xs))))

Line(b0, b1, t) == FAdd(b0, FMul(b1, F(t)))

TrendOf(xs, b0, b1) == [i \in 1..Len(xs) |-> Line(b0, b1, xs[i])]

ResidualOf(ys, tr) == [i \in 1..Len(ys) |-> FSub(ys[i], tr[i])]

\* FutureX starting at the last historical index.
FutureXFromLast(xlast, n) == [i \in 1..n |-> xlast + i - 1]

\* np.arange(x[-1] + 1, x[-1] + pred_days + 1)
FutureX(xlast, n) == [i \in 1..n |-> xlast + i]

\* pd.date_range(start=last + timedelta(days=1), periods=pred_days)
FutureDates(last, n) == [i \in 1..n |-> (last + 1) + (i - 1)]

ChangePct(future, current) == FMul(FDiv(FSub(future, current), current), F(100))

\* TrendStatus with the threshold inclusive.
TrendStatusInclusive(pct) ==
  IF FGt(pct, F(0)) \/ pct = F(0) THEN NAIK ELSE TURUN

TrendStatus(pct) == IF FGt(pct, F(0)) THEN NAIK ELSE TURUN

\* CacheHit of a function that is not cached.
CacheNeverHit(cache) == FALSE

\* @st.cache_data on a function without arguments: one entry.
CacheHit(cache) == cache # NoRate

\* st.cache_data.clear()
CacheClear == NoRate

\* ------------------------------------------------------- inputs drawn
PredChoices == (PredMin..(PredMin + PredSpan - 1)) \cup {PredDefault}

ManualChoices == {KursMin, KursDefault}

ApiRates == 1..MaxRate

PriceChoices == {Norm(j * OzGram.n, OzGram.d) : j \in 0..MaxPrice} \cup {NaN}

RECURSIVE SortedSeq(_)
SortedSeq(D) ==
  IF D = {} THEN <<>>
  ELSE LET m == CHOOSE a \in D : \A b \in D : a <= b
       IN  <<m>> \o SortedSeq(D \ {m})

\* What yf.download may return: one row per trading day, dates increasing,
\* a Close that may be missing; possibly no row at all.
Feeds ==
  UNION { { [i \in 1..Len(sd) |-> [ds |-> sd[i], price_usd |-> f[i]]] :
              f \in [1..Len(sd) -> PriceChoices] } :
          sd \in {SortedSeq(D) : D \in SUBSET (0..MaxDay)} }

\* --------------------------------------------------------------- state
VARIABLES
  kurs_mode, manual_kurs, pred_days, clicked,   \* widgets
  kurs_cache, fetches,                          \* get_kurs_api's cache; fetches since Refresh
  pc, emitted,                                  \* position of the run, elements shown
  kurs_idr, df, x, beta_0, beta_1, trend, residual,
  future_df, current_idr, future_price, change_pct, trend_status

widgets == <<kurs_mode, manual_kurs, pred_days, clicked>>

cachev == <<kurs_cache, fetches>>

fitv == <<x, beta_0, beta_1, trend, residual>>

sumv == <<current_idr, future_price, change_pct, trend_status>>

vars == <<widgets, cachev, pc, emitted, kurs_idr, df, fitv, future_df, sumv>>

\* A run starts with none of the script's variables assigned.
FreshRun ==
  /\ pc' = "kurs"
  /\ emitted' = {}
  /\ kurs_idr' = Unset
  /\ df' = <<>>
  /\ x' = <<>>
  /\ beta_0' = Unset
  /\ beta_1' = Unset
  /\ trend' = <<>>
  /\ residual' = <<>>
  /\ future_df' = <<>>
  /\ current_idr' = Unset
  /\ future_price' = Unset
  /\ change_pct' = Unset
  /\ trend_status' = ""

Init ==
  /\ kurs_mode = API
  /\ manual_kurs = KursDefault
  /\ pred_days = PredDefault
  /\ clicked = FALSE
  /\ kurs_cache = NoRate
  /\ fetches = 0
  /\ pc = "kurs"
  /\ emitted = {}
  /\ kurs_idr = Unset
  /\ df = <<>>
  /\ x = <<>>
  /\ beta_0 = Unset
  /\ beta_1 = Unset
  /\ trend = <<>>
  /\ residual = <<>>
  /\ future_df = <<>>
  /\ current_idr = Unset
  /\ future_price = Unset
  /\ change_pct = Unset
  /\ trend_status = ""

Finished == pc \in {"done", "failed"}

\* ------------------------------------------------- widget interactions
\* Each change of a widget reruns the script from the top.
SelectKursMode(m) ==
  /\ Finished
  /\ m # kurs_mode
  /\ kurs_mode' = m
  /\ UNCHANGED <<manual_kurs, pred_days, clicked, cachev>>
  /\ FreshRun

SlidePredDays(p) ==
  /\ Finished
  /\ p # pred_days
  /\ pred_days' = p
  /\ UNCHANGED <<kurs_mode, manual_kurs, clicked, cachev>>
  /\ FreshRun

InputManualKurs(k) ==
  /\ Finished
  /\ "kurs_input" \in emitted
  /\ k # manual_kurs
  /\ manual_kurs' = k
  /\ UNCHANGED <<kurs_mode, pred_days, clicked, cachev>>
  /\ FreshRun

PressRefresh ==
  /\ Finished
  /\ "button" \in emitted
  /\ clicked' = TRUE
  /\ UNCHANGED <<kurs_mode, manual_kurs, pred_days, cachev>>
  /\ FreshRun

\* ------------------------------------------------------ rate, lines 51-60
\* API mode, the cache holds the rate: get_kurs_api's body does not run.
\* The number_input is not rendered, so Streamlit drops its value.
KursApiCached ==
  /\ pc = "kurs"
  /\ kurs_mode = API
  /\ CacheHit(kurs_cache)
  /\ kurs_idr' = kurs_cache
  /\ manual_kurs' = KursDefault
  /\ pc' = "refresh"
  /\ UNCHANGED <<kurs_mode, pred_days, clicked, cachev, emitted, df, fitv,
                 future_df, sumv>>

\* API mode, nothing cached: requests.get answers and the rate is cached.
KursApiFetch(r) ==
  /\ pc = "kurs"
  /\ kurs_mode = API
  /\ ~CacheHit(kurs_cache)
  /\ fetches < MaxFetches
  /\ fetches' = fetches + 1
  /\ kurs_cache' = F(r)
  /\ kurs_idr' = F(r)
  /\ manual_kurs' = KursDefault
  /\ pc' = "refresh"
  /\ UNCHANGED <<kurs_mode, pred_days, clicked, emitted, df, fitv, future_df,
                 sumv>>

\* API mode, nothing cached: requests.get or the JSON lookup raises.  The
\* exception ends the run; st.cache_data stores nothing.
KursApiFetchFails ==
  /\ pc = "kurs"
  /\ kurs_mode = API
  /\ ~CacheHit(kurs_cache)
  /\ fetches < MaxFetches
  /\ fetches' = fetches + 1
  /\ manual_kurs' = KursDefault
  /\ pc' = "failed"
  /\ UNCHANGED <<kurs_mode, pred_days, clicked, kurs_cache, emitted, kurs_idr,
                 df, fitv, future_df, sumv>>

KursManual ==
  /\ pc = "kurs"
  /\ kurs_mode = MANUAL
  /\ kurs_idr' = F(manual_kurs)
  /\ emitted' = emitted \cup {"kurs_input"}
  /\ pc' = "refresh"
  /\ UNCHANGED <<widgets, cachev, df, fitv, future_df, sumv>>

\* ------------------------------------------------- Refresh, lines 62-64
\* The button was pressed: every cache is cleared and st.rerun() abandons
\* this run and starts the script again, the button reading False.
RefreshClicked ==
  /\ pc = "refresh"
  /\ clicked
  /\ kurs_cache' = CacheClear
  /\ fetches' = 0
  /\ clicked' = FALSE
  /\ UNCHANGED <<kurs_mode, manual_kurs, pred_days>>
  /\ FreshRun

RefreshNotClicked ==
  /\ pc = "refresh"
  /\ ~clicked
  /\ emitted' = emitted \cup {"button"}
  /\ pc' = "load"
  /\ UNCHANGED <<widgets, cachev, kurs_idr, df, fitv, future_df, sumv>>

\* --------------------------------------------- load_gold and line 98
\* load_gold's cache key is start_date, datetime.today() minus the period
\* chosen in hist_period, which differs on every run: each run downloads.
\* The period only selects the window the provider answers for, so the
\* selectbox is not a variable of its own.  The rows are what the
\* provider answers; rows with a missing Close are dropped, the rest
\* converted to IDR per gram.
LoadGold(raw) ==
  /\ pc = "load"
  /\ df' = LET d == DropNa(raw)
           IN  [i \in 1..Len(d) |->
                  [ds |-> d[i].ds, price_usd |-> d[i].price_usd,
                   price_idr |-> PriceIdr(d[i].price_usd, kurs_idr)]]
  /\ pc' = "kpi"
  /\ UNCHANGED <<widgets, cachev, emitted, kurs_idr, fitv, future_df, sumv>>

\* ------------------------------------------------------ KPI, 103-111
\* iloc[-1] of an empty frame raises IndexError.
Kpi ==
  /\ pc = "kpi"
  /\ IF Len(df) = 0
       THEN /\ pc' = "failed"
            /\ UNCHANGED <<current_idr, emitted>>
       ELSE /\ current_idr' = Last(df).price_idr
            /\ emitted' = emitted \cup {"kpi"}
            /\ pc' = "fit"
  /\ UNCHANGED <<widgets, cachev, kurs_idr, df, fitv, future_df,
                 future_price, change_pct, trend_status>>

\* ------------------------------------------------ regression, 118-131
Fit ==
  /\ pc = "fit"
  /\ LET t == TimeIndex(Column(df, "ds"))
         y == Column(df, "price_idr")
         b1 == Beta1(t, y)
         b0 == Beta0(t, y, b1)
         tr == TrendOf(t, b0, b1)
     IN  /\ x' = t
         /\ beta_1' = b1
         /\ beta_0' = b0
         /\ trend' = tr
         /\ residual' = ResidualOf(y, tr)
  /\ pc' = "forecast"
  /\ UNCHANGED <<widgets, cachev, emitted, kurs_idr, df, future_df, sumv>>

\* ------------------------------------------------- prediction, 136-147
Forecast ==
  /\ pc = "forecast"
  /\ LET future_x == FutureX(Last(x), pred_days)
         future_dates == FutureDates(Last(df).ds, pred_days)
     IN  future_df' = [i \in 1..pred_days |->
                         [ds |-> future_dates[i],
                          trend |-> Line(beta_0, beta_1, future_x[i])]]
  /\ pc' = "summary"
  /\ UNCHANGED <<widgets, cachev, emitted, kurs_idr, df, fitv, sumv>>

\* ---------------------------------------------------- summary, 149-164
Summarize ==
  /\ pc = "summary"
  /\ LET fp == Last(future_df).trend
         pct == ChangePct(fp, current_idr)
     IN  /\ future_price' = fp
         /\ change_pct' = pct
         /\ trend_status' = TrendStatus(pct)
  /\ emitted' = emitted \cup {"summary"}
  /\ pc' = "chart"
  /\ UNCHANGED <<widgets, cachev, kurs_idr, df, fitv, future_df, current_idr>>

\* ------------------------------------------------------ chart, 173-198
\* The history, the trend line, the forecast and the noise band are drawn
\* (the band's width, the residuals' standard deviation, is not modelled).
Chart ==
  /\ pc = "chart"
  /\ emitted' = emitted \cup {"chart"}
  /\ pc' = "done"
  /\ UNCHANGED <<widgets, cachev, kurs_idr, df, fitv, future_df, sumv>>

Next ==
  \/ \E m \in {API, MANUAL} : SelectKursMode(m)
  \/ \E p \in PredChoices : SlidePredDays(p)
  \/ \E k \in ManualChoices : InputManualKurs(k)
  \/ PressRefresh
  \/ KursApiCached
  \/ \E r \in ApiRates : KursApiFetch(r)
  \/ KursApiFetchFails
  \/ KursManual
  \/ RefreshClicked
  \/ RefreshNotClicked
  \/ \E raw \in Feeds : LoadGold(raw)
  \/ Kpi
  \/ Fit
  \/ Forecast
  \/ Summarize
  \/ Chart

Spec == Init /\ [][Next]_vars

\* ------------------------------------------------- the engine on its own
\* One run from line 66 on, started in any state the rate lookup and the
\* Refresh check can leave: a rate from the API (cached) or from the
\* number_input, any position of the slider.
InitEngine ==
  /\ kurs_mode \in {API, MANUAL}
  /\ pred_days \in PredChoices
  /\ clicked = FALSE
  /\ manual_kurs \in (IF kurs_mode = API THEN {KursDefault} ELSE ManualChoices)
  /\ kurs_cache \in (IF kurs_mode = API THEN {F(r) : r \in ApiRates} ELSE {NoRate})
  /\ fetches = (IF kurs_mode = API THEN 1 ELSE 0)
  /\ kurs_idr = (IF kurs_mode = API THEN kurs_cache ELSE F(manual_kurs))
  /\ pc = "load"
  /\ emitted = (IF kurs_mode = API THEN {"button"} ELSE {"kurs_input", "button"})
  /\ df = <<>>
  /\ x = <<>>
  /\ beta_0 = Unset
  /\ beta_1 = Unset
  /\ trend = <<>>
  /\ residual = <<>>
  /\ future_df = <<>>
  /\ current_idr = Unset
  /\ future_price = Unset
  /\ change_pct = Unset
  /\ trend_status = ""

NextEngine ==
  \/ \E raw \in Feeds : LoadGold(raw)
  \/ Kpi
  \/ Fit
  \/ Forecast
  \/ Summarize
  \/ Chart

SpecEngine == InitEngine /\ [][NextEngine]_vars

\* ------------------------------------------------------------- stages
Loaded == pc \in {"kpi", "fit", "forecast", "summary", "chart", "done"}

Fitted == pc \in {"forecast", "summary", "chart", "done"}

Forecasted == pc \in {"summary", "chart", "done"}

Summarized == pc \in {"chart", "done"}

Results == {"kpi", "summary", "chart"}

Prices == Column(df, "price_idr")

\* Sum of squared residuals of the line b0 + b1 * t over (x, price_idr).
SSR(b0, b1) ==
  FSum([i \in 1..Len(x) |->
          LET r == FSub(Prices[i], Line(b0, b1, x[i])) IN FMul(r, r)])

Half(i) == Norm(i, 2)

\* The rates for which the squares of the comparison stay within the
\* integers of the model checker.
SmallRate == IsFinite(kurs_idr) /\ kurs_idr.n <= MaxRate * kurs_idr.d

\* C1: with at least 2 distinct dates the fitted slope and intercept are the
\* closed-form least-squares solution: slope * Sxx = Sxy, intercept =
\* yMean - slope * xMean, the residuals sum to zero and are orthogonal to
\* the time index, and no line of the comparison grid around the fit has a
\* smaller sum of squared residuals.
C1_LeastSquares ==
  (Fitted /\ Cardinality({x[i] : i \in 1..Len(x)}) >= 2) =>
    LET n == F(Len(x))
        xm == FMean(Floats(x))
        ym == FMean(Prices)
        Sxy == FSub(FSum([i \in 1..Len(x) |-> FMul(F(x[i]), Prices[i])]),
                    FMul(n, FMul(xm, ym)))
        Sxx == FSub(FSum([i \in 1..Len(x) |-> F(x[i] * x[i])]),
                    FMul(n, FMul(xm, xm)))
    IN  /\ FGt(Sxx, F(0))
        /\ FMul(beta_1, Sxx) = Sxy
        /\ beta_0 = FSub(ym, FMul(beta_1, xm))
        /\ \A i \in 1..Len(x) :
             residual[i] = FSub(Prices[i], Line(beta_0, beta_1, x[i]))
        /\ FSum(residual) = F(0)
        /\ FSum([i \in 1..Len(x) |-> FMul(F(x[i]), residual[i])]) = F(0)
        /\ SmallRate =>
             \A i, j \in (-Grid)..Grid :
               ~FGt(SSR(beta_0, beta_1),
                    SSR(FAdd(beta_0, Half(i)), FAdd(beta_1, Half(j))))

\* A fit over three points that do not lie on one line.
C1_Witness ==
  /\ Fitted
  /\ Len(x) = 3
  /\ SmallRate
  /\ \E i \in 1..Len(residual) : residual[i] # F(0)

\* C2: the forecast has exactly pred_days >= 1 points; the step-th point is
\* dated step days after the last historical date and, for a finite fit,
\* its value is intercept + slope * (lastTimeIndex + step).
C2_Forecast ==
  Forecasted =>
    /\ pred_days >= 1
    /\ Len(future_df) = pred_days
    /\ \A step \in 1..pred_days :
         /\ future_df[step].ds = Last(df).ds + step
         /\ future_df[step].ds > Last(df).ds
         /\ (IsFinite(beta_0) /\ IsFinite(beta_1)) =>
              future_df[step].trend =
                FAdd(beta_0, FMul(beta_1, F(Last(x) + step)))

C2_Witness ==
  /\ Forecasted
  /\ pred_days = PredMin
  /\ IsFinite(beta_1)
  /\ beta_1 # F(0)
  /\ Len(future_df) = PredMin

\* C3: a run whose series keeps fewer than 2 valid points after the rows
\* with missing values are dropped fails: no fit is ever made of it.
C3_InsufficientDataFails == Fitted => Len(df) >= 2

\* C4: the direction is Up exactly when (forecast - current) / current * 100
\* is strictly positive, current being the last historical value and
\* forecast the last forecast value; a flat series and a negative or
\* undefined change give DownOrFlat.
C4_Direction ==
  Summarized =>
    /\ current_idr = Last(df).price_idr
    /\ future_price = Last(future_df).trend
    /\ (IsFinite(future_price) /\ IsFinite(current_idr) /\ current_idr # F(0)) =>
         /\ FMul(change_pct, current_idr) =
              FMul(FSub(future_price, current_idr), F(100))
         /\ (trend_status = NAIK) <=>
              (Sgn(future_price.n * current_idr.d - current_idr.n * future_price.d)
                 * Sgn(current_idr.n) > 0)
    /\ IsNaN(future_price) => trend_status = TURUN
    /\ (Len(df) >= 2 /\ \A i \in 1..Len(df) : Prices[i] = Prices[1]) =>
         /\ beta_1 = F(0)
         /\ beta_0 = Prices[1]
         /\ trend_status = TURUN
    /\ trend_status \in {NAIK, TURUN}

\* The flat series of the scenario: three equal, non-zero prices.
C4_Witness ==
  /\ Summarized
  /\ Len(df) = 3
  /\ \A i \in 1..Len(df) : Prices[i] = Prices[1]
  /\ current_idr # F(0)
  /\ change_pct = F(0)
  /\ trend_status = TURUN

\* C5: with a current value of 0 (here in a series of at least 2 points, so
\* that nothing else is wrong with it) the summary fails: no percentage
\* change, no direction and no summary are produced.
C5_ZeroCurrentFails ==
  (Len(df) >= 2 /\ current_idr = F(0)) =>
    /\ change_pct = Unset
    /\ trend_status = ""
    /\ "summary" \notin emitted

\* C6: when all time indices are identical the fit fails and produces no
\* slope and no intercept.
C6_DegenerateFails ==
  (x # <<>> /\ \A i, j \in 1..Len(x) : x[i] = x[j]) =>
    /\ pc = "failed"
    /\ beta_1 = Unset
    /\ beta_0 = Unset

\* C7: a run in which a stage fails (a raised exception, fewer than 2 valid
\* points, a degenerate series, a current value of 0) shows no KPI, no
\* summary and no chart.
C7_NoPartialResults ==
  (\/ pc = "failed"
   \/ Loaded /\ Len(df) < 2
   \/ Loaded /\ Len(df) >= 2 /\ Last(df).price_idr = F(0)) =>
    emitted \cap Results = {}

\* C8: each time index is the number of days between the point's date and
\* the earliest date of the filtered series; the indices start at 0, never
\* decrease, and the last one is the largest.
C8_TimeIndex ==
  Fitted =>
    /\ Len(x) = Len(df)
    /\ \A i \in 1..Len(x) :
         /\ \E j \in 1..Len(df) :
              /\ \A k \in 1..Len(df) : df[j].ds <= df[k].ds
              /\ x[i] = df[i].ds - df[j].ds
         /\ x[i] <= Last(x)
    /\ x[1] = 0
    /\ \A i \in 1..(Len(x) - 1) : x[i] <= x[i + 1]

\* A series whose first date is not the provider's first day.
C8_Witness ==
  /\ Fitted
  /\ Len(x) >= 2
  /\ df[1].ds > 0
  /\ Last(x) > 0

C10_AtMostOnce == fetches <= 1

\* C10 as amended: a fetch happens only in an API-mode lookup that finds the
\* cache empty; a fetched rate is cached and from then on, until Refresh is
\* pressed, every lookup uses it and nothing is fetched; a press of Refresh
\* clears the cache and restarts the script.
C10_CachedUntilRefresh ==
  [][ /\ (fetches' > fetches) =>
           (pc = "kurs" /\ kurs_mode = API /\ kurs_cache = NoRate)
      /\ (kurs_cache # NoRate /\ ~(pc = "refresh" /\ clicked)) =>
           (kurs_cache' = kurs_cache /\ fetches' = fetches)
      /\ (kurs_cache # NoRate /\ pc = "kurs" /\ kurs_mode = API) =>
           kurs_idr' = kurs_cache
      /\ (kurs_cache = NoRate /\ pc = "kurs" /\ kurs_mode = API
            /\ pc' = "refresh") =>
           (fetches' = fetches + 1 /\ kurs_cache' = kurs_idr'
              /\ kurs_cache' # NoRate)
      /\ (pc = "refresh" /\ clicked) =>
           (kurs_cache' = NoRate /\ fetches' = 0 /\ pc' = "kurs" /\ ~clicked')
    ]_vars

\* A later run in API mode that finished on the one rate fetched.
C10_Witness ==
  /\ pc = "done"
  /\ kurs_mode = API
  /\ pred_days # PredDefault
  /\ fetches = 1
  /\ kurs_idr = kurs_cache

=============================================================================
